---------------------------- MODULE Spec2Model ----------------------------
(***************************************************************************)
(* A model of the SLR(1) front end of SLR1-Parser                          *)
(* (src/src/parser/syntax_analysis.rs).                                    *)
(*                                                                         *)
(* Symbols are strings.  A Vec<String> is a sequence (duplicates and       *)
(* length are kept, because the code compares lengths).  A                 *)
(* HashMap<String, _> is a function whose domain is its key set.  A panic  *)
(* of the Rust code (index out of range, unwrap of None) is the result     *)
(* record [ok |-> FALSE].                                                  *)
(***************************************************************************)
EXTENDS Integers, Sequences, FiniteSets, TLC

(***************************************************************************)
(* Vec and HashMap helpers                                                 *)
(***************************************************************************)

\* Vec::contains
Contains(list, x) == \E i \in DOMAIN list : list[i] = x

\* the set of elements of a Vec
Elems(list) == { list[i] : i \in DOMAIN list }

\* Iterator::position / Iterator::find over the indices S that satisfy the
\* test: the least of them, 0 if there is none
Min0(S) == IF S = {} THEN 0 ELSE CHOOSE i \in S : \A k \in S : i <= k

AppendIf(list, x, cond) == IF cond THEN Append(list, x) ELSE list

\* .collect::<HashSet<_>>().into_iter().collect::<Vec<_>>() : the distinct
\* elements, once each.  The iteration order of a HashSet is unspecified; no
\* caller reads the order (only contains, len and per-element loops), so the
\* order of first occurrence stands for it.
RECURSIVE Dedup(_)
Dedup(list) ==
  IF list = <<>> THEN <<>>
  ELSE AppendIf(Dedup(SubSeq(list, 1, Len(list) - 1)), list[Len(list)],
                ~Contains(SubSeq(list, 1, Len(list) - 1), list[Len(list)]))

\* .filter(|s| s != x) on a Vec
RECURSIVE Without(_, _)
Without(list, x) ==
  IF list = <<>> THEN <<>>
  ELSE AppendIf(Without(SubSeq(list, 1, Len(list) - 1), x), list[Len(list)],
                list[Len(list)] # x)

\* HashMap::insert
Insert(map, k, val) == (k :> val) @@ map

EPS == "ε"
END == "#"

(***************************************************************************)
(* Grammar and Grammar::validate                                           *)
(***************************************************************************)

Product(l, r) == [left |-> l, right |-> r]

Grammar(s, v, t, p) == [s |-> s, v |-> v, t |-> t, p |-> p]

\* Grammar::validate with the first test weakened to "no symbol is in both V
\* and T" (a repeated element inside V or inside T passes)
validate_overlap(g) ==
  IF Elems(g.v) \cap Elems(g.t) # {} THEN "ErrDuplicate"
  ELSE IF ~Contains(g.v, g.s) THEN "ErrStart"
  ELSE IF \E i \in DOMAIN g.p : ~Contains(g.v, g.p[i].left) THEN "ErrLeft"
  ELSE IF \E i \in DOMAIN g.p : \E k \in DOMAIN g.p[i].right :
            ~Contains(g.v, g.p[i].right[k]) /\ ~Contains(g.t, g.p[i].right[k])
       THEN "ErrRight"
  ELSE "Ok"

\* Grammar::validate : "Ok" or the reason of the GrammarError, in the order
\* the code tests them.
validate(g) ==
  IF Cardinality(Elems(g.v) \cup Elems(g.t)) # Len(g.v) + Len(g.t) THEN "ErrDuplicate"
  ELSE IF ~Contains(g.v, g.s) THEN "ErrStart"
  ELSE IF \E i \in DOMAIN g.p : ~Contains(g.v, g.p[i].left) THEN "ErrLeft"
  ELSE IF \E i \in DOMAIN g.p : \E k \in DOMAIN g.p[i].right :
            ~Contains(g.v, g.p[i].right[k]) /\ ~Contains(g.t, g.p[i].right[k])
       THEN "ErrRight"
  ELSE "Ok"

(***************************************************************************)
(* FIRST                                                                   *)
(*                                                                         *)
(* The loops of the code are recursive operators that thread a state       *)
(* record st through the iterations; st.ok = FALSE is a panic.             *)
(***************************************************************************)

\* union_first / union_follow, lines 521-531 and 621-631 : x's list becomes
\* merged; the flag compares the lengths before and after
merge_into(map, x, merged) ==
  [map |-> Insert(map, x, merged), changed |-> Len(map[x]) < Len(merged)]

\* union_first, lines 508-519 : y_first
first_addend(first, y, discard) ==
  IF y = EPS THEN (IF discard THEN <<>> ELSE <<EPS>>)
  ELSE IF discard THEN Without(first[y], EPS)
  ELSE first[y]

\* union_first : the new map and the returned flag
union_first(first, x, y, discard) ==
  merge_into(first, x, Dedup(first[x] \o first_addend(first, y, discard)))

\* changed = union_first(&mut first, ...)
with_first(st, u) == [st EXCEPT !.first = u.map, !.changed = u.changed]

\* get_first, lines 436-444 : terminals map to themselves, non-terminals to []
first_init(g) ==
  [k \in Elems(g.t) \cup Elems(g.v) |-> IF Contains(g.v, k) THEN <<>> ELSE <<k>>]

\* first.get_mut(k).unwrap().push(x), when cond
push_if(map, k, x, cond) == IF cond THEN [map EXCEPT ![k] = Append(@, x)] ELSE map

\* get_first, lines 447-454 for one production (p.right[0] panics on an empty right)
first_seed_step(st, g, p) ==
  IF Len(p.right) = 0 THEN [st EXCEPT !.ok = FALSE]
  ELSE [st EXCEPT !.first =
          push_if(push_if(@, p.left, p.right[1], Contains(g.t, p.right[1])),
                  p.left, EPS, p.right = <<EPS>>)]

\* get_first, lines 447-454 : the productions from index n on
RECURSIVE first_seed(_, _, _)
first_seed(st, g, n) ==
  IF ~st.ok \/ n > Len(g.p) THEN st
  ELSE first_seed(first_seed_step(st, g, g.p[n]), g, n + 1)

\* get_first, lines 481-488 : the walk over Y_1 ... Y_k from index i (1-based);
\* p.right[i + 1] is evaluated before the call and panics past the end
RECURSIVE first_walk(_, _, _)
first_walk(st, p, i) ==
  IF i > Len(p.right) THEN st
  ELSE IF ~Contains(st.first[p.right[i]], EPS) THEN [st EXCEPT !.need_epsilon = FALSE]
  ELSE IF i + 1 > Len(p.right) THEN [st EXCEPT !.ok = FALSE]
  ELSE first_walk(with_first(st, union_first(st.first, p.left, p.right[i + 1],
                                             st.need_epsilon)),
                  p, i + 1)

\* the first symbol of a right side is never looked up
first_head_skip(st, g, p) == st

\* get_first, lines 463-465 : the first symbol is a non-terminal
first_head(st, g, p) ==
  IF Contains(g.v, p.right[1])
  THEN with_first(st, union_first(st.first, p.left, p.right[1], TRUE))
  ELSE st

\* get_first, lines 491-493
first_tail(st, p) ==
  IF ~st.ok \/ ~st.need_epsilon THEN st
  ELSE with_first(st, union_first(st.first, p.left, EPS, FALSE))

\* get_first, lines 468-493 : after the first symbol
first_rest(st, p) ==
  IF Len(p.right) = 1 THEN st
  ELSE first_tail(first_walk([st EXCEPT !.need_epsilon = TRUE], p, 1), p)

\* get_first, lines 460-494 : the closure body for one production
first_pass_step(st, g, p) == first_rest(first_head(st, g, p), p)

\* get_first, line 460 : the productions from index n on
RECURSIVE first_pass(_, _, _)
first_pass(st, g, n) ==
  IF ~st.ok \/ n > Len(g.p) THEN st
  ELSE first_pass(first_pass_step(st, g, g.p[n]), g, n + 1)

\* get_first, lines 457-495 : while changed { changed = false; one pass }
RECURSIVE first_loop(_, _)
first_loop(st, g) ==
  IF ~st.ok \/ ~st.changed THEN st
  ELSE first_loop(first_pass([st EXCEPT !.changed = FALSE], g, 1), g)

first_result(st) == IF st.ok THEN [ok |-> TRUE, first |-> st.first] ELSE [ok |-> FALSE]

\* get_first : [ok |-> TRUE, first |-> the map] or [ok |-> FALSE] on a panic
get_first(g) ==
  first_result(first_loop(first_seed([ok |-> TRUE, first |-> first_init(g),
                                      changed |-> TRUE, need_epsilon |-> TRUE],
                                     g, 1),
                          g))

(***************************************************************************)
(* FOLLOW                                                                  *)
(***************************************************************************)

\* a.join(" ")
RECURSIVE Join(_)
Join(a) ==
  IF Len(a) = 0 THEN ""
  ELSE IF Len(a) = 1 THEN a[1]
  ELSE Join(SubSeq(a, 1, Len(a) - 1)) \o " " \o a[Len(a)]

\* get_first_all, lines 656-669 : the walk over a from index i (1-based) and
\* the ε added when every symbol of a has ε in its list; the new map
RECURSIVE first_all_walk(_, _, _, _)
first_all_walk(first, a_key, a, i) ==
  IF i > Len(a) THEN union_first(first, a_key, EPS, FALSE).map
  ELSE IF Contains(first[a[i]], EPS)
  THEN first_all_walk(union_first(first, a_key, a[i], TRUE).map, a_key, a, i + 1)
  ELSE union_first(first, a_key, a[i], TRUE).map

\* the map and its list under key
first_entry(first, key) == [first |-> first, list |-> first[key]]

\* get_first_all : FIRST of the sequence a, cached in the map under a.join(" ");
\* the (possibly extended) map and the returned list
get_first_all(first, a) ==
  IF Len(a) = 1 THEN first_entry(first, a[1])
  ELSE IF Join(a) \in DOMAIN first THEN first_entry(first, Join(a))
  ELSE first_entry(first_all_walk(Insert(first, Join(a), <<>>), Join(a), a, 1), Join(a))

\* union_follow, lines 616-619 : y_first
follow_addend(follow, y) == IF y = EPS THEN <<EPS>> ELSE follow[y]

\* union_follow : the new map and the returned flag
union_follow(follow, x, y) ==
  merge_into(follow, x, Dedup(follow[x] \o follow_addend(follow, y)))

\* changed = union_follow(&mut follow, ...)
with_follow(st, u) == [st EXCEPT !.follow = u.map, !.changed = u.changed]

\* get_follow_with_first, lines 598-600 : follow.insert(B, b_follow);
\* changed = changed || before < after
with_beta(st, u) == [st EXCEPT !.follow = u.map, !.changed = @ \/ u.changed]

\* get_follow_with_first, lines 582-600 : FIRST(β) without ε goes into FOLLOW(B)
follow_add(st, b, beta_first) ==
  with_beta(st, merge_into(st.follow, b, Dedup(st.follow[b] \o Without(beta_first, EPS))))

\* get_follow_with_first, lines 577-579
follow_nullable(st, b, a, beta_first) ==
  IF Contains(beta_first, EPS) THEN with_follow(st, union_follow(st.follow, b, a)) ELSE st

\* get_follow_with_first, lines 573-600 : A -> αBβ, fa is what get_first_all
\* returned for β
follow_beta(st, p, i, fa) ==
  follow_add(follow_nullable([st EXCEPT !.first = fa.first], p.right[i], p.left, fa.list),
             p.right[i], fa.list)

\* get_follow_with_first, lines 558-602 : the body of the loop over i for one
\* position i (1-based) of one production
follow_pos_step(st, g, p, i) ==
  IF ~Contains(g.v, p.right[i]) THEN st
  ELSE IF i = Len(p.right) THEN with_follow(st, union_follow(st.follow, p.right[i], p.left))
  ELSE follow_beta(st, p, i, get_first_all(st.first, SubSeq(p.right, i + 1, Len(p.right))))

\* get_follow_with_first, line 558 : the positions from i on
RECURSIVE follow_prod(_, _, _, _)
follow_prod(st, g, p, i) ==
  IF i > Len(p.right) THEN st
  ELSE follow_prod(follow_pos_step(st, g, p, i), g, p, i + 1)

\* get_follow_with_first, line 557 : the productions from index n on
RECURSIVE follow_pass(_, _, _)
follow_pass(st, g, n) ==
  IF n > Len(g.p) THEN st
  ELSE follow_pass(follow_prod(st, g, g.p[n], 1), g, n + 1)

\* get_follow_with_first, lines 554-604 : while changed { changed = false; one pass }
RECURSIVE follow_loop(_, _)
follow_loop(st, g) ==
  IF ~st.changed THEN st
  ELSE follow_loop(follow_pass([st EXCEPT !.changed = FALSE], g, 1), g)

\* every non-terminal maps to [], the start symbol included
follow_init_empty(g) == [k \in Elems(g.v) |-> <<>>]

\* get_follow_with_first, lines 543-551 : every non-terminal maps to [], then
\* # is pushed for the start symbol
follow_init(g) == [k \in Elems(g.v) |-> IF k = g.s THEN <<END>> ELSE <<>>]

\* get_follow_with_first : the FOLLOW map (keys: the non-terminals)
get_follow_with_first(g, first) ==
  follow_loop([first |-> first, follow |-> follow_init(g), changed |-> TRUE], g).follow

follow_result(g, f) ==
  IF f.ok THEN [ok |-> TRUE, follow |-> get_follow_with_first(g, f.first)]
  ELSE [ok |-> FALSE]

\* get_follow : get_first, then get_follow_with_first; a panic of get_first
\* is a panic of get_follow
get_follow(g) == follow_result(g, get_first(g))

(***************************************************************************)
(* LR(0) items, CLOSURE, GOTO and the canonical collection                 *)
(***************************************************************************)

Item(l, r, d) == [left |-> l, right |-> r, dot |-> d]

\* Item { left, right, dot: 0 } of a production
new_item(p) == Item(p.left, p.right, 0)

\* item.right[item.dot] : the symbol after the dot (the code counts from 0)
dot_symbol(item) == item.right[item.dot + 1]

\* the productions n..Len(g.p) whose left is a are added to j, and the queue
\* e is left as it is
RECURSIVE closure_add_shallow(_, _, _, _, _)
closure_add_shallow(j, e, g, a, n) ==
  IF n > Len(g.p) THEN [j |-> j, e |-> e]
  ELSE IF g.p[n].left = a /\ ~Contains(j, new_item(g.p[n]))
  THEN closure_add_shallow(Append(j, new_item(g.p[n])), e, g, a, n + 1)
  ELSE closure_add_shallow(j, e, g, a, n + 1)

\* closure, lines 796-807 : the productions n..Len(g.p) whose left is a are
\* added, in order, to j and to the queue e unless j already holds the item
RECURSIVE closure_add(_, _, _, _, _)
closure_add(j, e, g, a, n) ==
  IF n > Len(g.p) THEN [j |-> j, e |-> e]
  ELSE IF g.p[n].left = a /\ ~Contains(j, new_item(g.p[n]))
  THEN closure_add(Append(j, new_item(g.p[n])), Append(e, new_item(g.p[n])), g, a, n + 1)
  ELSE closure_add(j, e, g, a, n + 1)

\* closure, lines 783-809 : the work loop on the queue r.e
RECURSIVE closure_loop(_, _)
closure_loop(r, g) ==
  IF Len(r.e) = 0 THEN r.j
  ELSE IF Head(r.e).dot < Len(Head(r.e).right) /\ Contains(g.v, dot_symbol(Head(r.e)))
  THEN closure_loop(closure_add(r.j, Tail(r.e), g, dot_symbol(Head(r.e)), 1), g)
  ELSE closure_loop([j |-> r.j, e |-> Tail(r.e)], g)

\* closure
closure(i, g) == closure_loop([j |-> i, e |-> i], g)

\* goto, lines 752-764 : the items A -> α·xβ of items, dot advanced, in order
RECURSIVE goto_kernel(_, _, _)
goto_kernel(items, x, g) ==
  IF items = <<>> THEN <<>>
  ELSE AppendIf(goto_kernel(SubSeq(items, 1, Len(items) - 1), x, g),
                [items[Len(items)] EXCEPT !.dot = @ + 1],
                /\ items[Len(items)].dot < Len(items[Len(items)].right)
                /\ dot_symbol(items[Len(items)]) = x
                /\ (Contains(g.v, x) \/ Contains(g.t, x)))

\* goto
goto(items, x, g) == closure(goto_kernel(items, x, g), g)

\* items_eq : same length and every item of items1 is in items2
items_eq(items1, items2) ==
  /\ Len(items1) = Len(items2)
  /\ \A k \in DOMAIN items1 : Contains(items2, items1[k])

\* get_lr0_collection, lines 727-735 : to_items joins c and the queue e when
\* it is not empty and c does not hold it (Vec equality)
collection_add(r, to_items) ==
  IF Len(to_items) > 0 /\ ~Contains(r.c, to_items)
  THEN [c |-> Append(r.c, to_items), e |-> Append(r.e, to_items)]
  ELSE r

\* get_lr0_collection, lines 724-736 : the symbols n..Len(v_t) for one state
RECURSIVE collection_syms(_, _, _, _, _)
collection_syms(r, items, v_t, g, n) ==
  IF n > Len(v_t) THEN r
  ELSE collection_syms(collection_add(r, goto(items, v_t[n], g)), items, v_t, g, n + 1)

\* get_lr0_collection, lines 720-737 : the work loop on the queue r.e
RECURSIVE collection_loop(_, _, _)
collection_loop(r, v_t, g) ==
  IF Len(r.e) = 0 THEN r.c
  ELSE collection_loop(collection_syms([c |-> r.c, e |-> Tail(r.e)], Head(r.e), v_t, g, 1),
                       v_t, g)

\* get_lr0_collection, lines 698-704 : the start item is made of the first
\* production whose left is g.s
start_production(g) == g.p[Min0({ i \in DOMAIN g.p : g.p[i].left = g.s })]

\* get_lr0_collection, lines 707-739 : the collection grown from state 0
collection_from(i0, g) == collection_loop([c |-> <<i0>>, e |-> <<i0>>], g.v \o g.t, g)

\* get_lr0_collection : g is the augmented grammar
get_lr0_collection(g) == collection_from(closure(<< new_item(start_production(g)) >>, g), g)

(***************************************************************************)
(* ACTION / GOTO tables                                                    *)
(*                                                                         *)
(* A table cell is a String in the code: "" (empty), "s<j>", "r<j>", "acc" *)
(* in ACTION and "<j>" in GOTO.  A cell is modelled by the record          *)
(* [kind, n]: kind is the text before the number ("", "s", "r", "acc",     *)
(* and "g" for a GOTO entry), n the number that format! prints and that    *)
(* parse::<usize> reads back.  States and productions are numbered from 0  *)
(* as in the code; row k of a table is element k + 1 of the sequence.      *)
(* The tables are named Action and Goto (ACTION is a reserved word).       *)
(***************************************************************************)

Act(kind, n) == [kind |-> kind, n |-> n]

Empty == Act("", 0)

\* get_slr1_table, lines 111-117 : the augmented grammar
augment(g) ==
  [s |-> g.s \o "'", v |-> Append(g.v, g.s \o "'"), t |-> g.t,
   p |-> Append(g.p, Product(g.s \o "'", <<g.s>>))]

\* the warn! line of a conflicting insert: the key was present with a
\* non-empty, different value (lines 168-173, 181-186, 212-217)
conflict(name, row, i, sym, new) ==
  IF sym \in DOMAIN row /\ row[sym] # Empty /\ row[sym] # new
  THEN << [table |-> name, state |-> i, sym |-> sym, old |-> row[sym], new |-> new] >>
  ELSE <<>>

\* HashMap::insert on row i of Action followed by the match on its result,
\* lines 167-175 and 211-219
write_action_checked(tb, i, sym, action) ==
  [tb EXCEPT !.warnings = @ \o conflict("ACTION", tb.Action[i + 1], i, sym, action),
             !.Action[i + 1] = Insert(@, sym, action),
             !.writes = Append(@, [state |-> i, sym |-> sym, action |-> action])]

\* HashMap::insert on row i of Action with the result dropped, lines 198, 223
write_action(tb, i, sym, action) ==
  [tb EXCEPT !.Action[i + 1] = Insert(@, sym, action),
             !.writes = Append(@, [state |-> i, sym |-> sym, action |-> action])]

\* HashMap::insert on row i of Goto followed by the match, lines 180-188
write_goto_checked(tb, i, sym, target) ==
  [tb EXCEPT !.warnings = @ \o conflict("GOTO", tb.Goto[i + 1], i, sym, target),
             !.Goto[i + 1] = Insert(@, sym, target)]

\* get_slr1_table, lines 208-221 : the loop over follow_left from index n
RECURSIVE reduce_follow(_, _, _, _, _, _)
reduce_follow(tb, i, j, follow_left, og, n) ==
  IF n > Len(follow_left) THEN tb
  ELSE reduce_follow(IF Contains(og.t, follow_left[n])
                     THEN write_action_checked(tb, i, follow_left[n], Act("r", j))
                     ELSE tb,
                     i, j, follow_left, og, n + 1)

\* get_slr1_table, lines 222-224
reduce_end(tb, i, j, follow_left) ==
  IF Contains(follow_left, END) THEN write_action(tb, i, END, Act("r", j)) ELSE tb

\* get_slr1_table, lines 202-224 : j1 is 1 + the position of the item's
\* production, 0 when there is none (the unwrap panics)
reduce_item(tb, i, j1, item, og, follow) ==
  IF j1 = 0 \/ item.left \notin DOMAIN follow THEN [tb EXCEPT !.ok = FALSE]
  ELSE reduce_end(reduce_follow(tb, i, j1 - 1, follow[item.left], og, 1),
                  i, j1 - 1, follow[item.left])

\* every transition leads to the last state of the collection
target_index_last(lr0_items, to) == Len(lr0_items)

\* get_slr1_table, lines 162-163 : 1 + the first j with
\* items_eq(goto(items, ch), lr0_items[j]), 0 when there is none
target_index(lr0_items, to) ==
  Min0({ j \in DOMAIN lr0_items : items_eq(to, lr0_items[j]) })

\* get_slr1_table, lines 165-190
shift_or_goto(tb, i, ch, j1, og) ==
  IF j1 = 0 THEN tb
  ELSE IF Contains(og.t, ch) THEN write_action_checked(tb, i, ch, Act("s", j1 - 1))
  ELSE write_goto_checked(tb, i, ch, Act("g", j1 - 1))

\* every reduction is by the last production of the augmented grammar
production_index_last(og, item) == Len(og.p)

\* position(|p| p.left == item.left && p.right == item.right), 1-based, 0 if none
production_index(og, item) ==
  Min0({ j \in DOMAIN og.p : og.p[j].left = item.left /\ og.p[j].right = item.right })

\* get_slr1_table, lines 155-227 : the loop body for one item of state i
table_item_step(tb, i, items, item, lr0_items, og, follow) ==
  IF item.dot < Len(item.right)
  THEN shift_or_goto(tb, i, dot_symbol(item),
                     target_index(lr0_items, goto(items, dot_symbol(item), og)), og)
  ELSE IF item.left = og.s THEN write_action(tb, i, END, Act("acc", 0))
  ELSE reduce_item(tb, i, production_index(og, item), item, og, follow)

\* get_slr1_table, lines 154-155 : the pairs (state, item) in the order the
\* two nested loops visit them, as pairs <<row index, item index>>
RECURSIVE table_visits(_, _)
table_visits(lr0_items, n) ==
  IF n = 0 THEN <<>>
  ELSE table_visits(lr0_items, n - 1) \o [m \in 1..Len(lr0_items[n]) |-> <<n, m>>]

\* get_slr1_table, lines 154-228 : the loop body applied to the visits from
\* index n on, in order; a panic ends the function
RECURSIVE table_fill(_, _, _, _, _, _)
table_fill(tb, visits, lr0_items, og, follow, n) ==
  IF ~tb.ok \/ n > Len(visits) THEN tb
  ELSE table_fill(table_item_step(tb, visits[n][1] - 1, lr0_items[visits[n][1]],
                                  lr0_items[visits[n][1]][visits[n][2]],
                                  lr0_items, og, follow),
                  visits, lr0_items, og, follow, n + 1)

\* get_slr1_table, lines 125-146 : every cell of both tables is ""
empty_tables(lr0_items, og) ==
  [ok |-> TRUE,
   Action |-> [k \in DOMAIN lr0_items |-> [x \in Elems(og.t) \cup {END} |-> Empty]],
   Goto |-> [k \in DOMAIN lr0_items |-> [x \in Elems(og.v) \ {og.s} |-> Empty]],
   warnings |-> <<>>, writes |-> <<>>]

\* what get_slr1_table returns and what it computed or logged on the way
table_result(tb, og, lr0_items) ==
  IF ~tb.ok THEN [ok |-> FALSE]
  ELSE [ok |-> TRUE, Action |-> tb.Action, Goto |-> tb.Goto,
        warnings |-> tb.warnings, writes |-> tb.writes,
        outreach_g |-> og, lr0_items |-> lr0_items]

\* get_slr1_table, lines 125-230
table_of(og, lr0_items, follow) ==
  table_result(table_fill(empty_tables(lr0_items, og),
                          table_visits(lr0_items, Len(lr0_items)),
                          lr0_items, og, follow, 1),
               og, lr0_items)

\* get_slr1_table, lines 109-123
table_with(og, follow) == table_of(og, get_lr0_collection(og), follow)

\* get_slr1_table, line 107 : a panic of get_follow is a panic of the function
table_after(g, fl) == IF fl.ok THEN table_with(augment(g), fl.follow) ELSE [ok |-> FALSE]

\* get_slr1_table : [ok |-> TRUE, Action, Goto] with the augmented grammar
\* outreach_g, the collection lr0_items and the warn! lines as warnings, or
\* [ok |-> FALSE] on a panic.  writes is a history of the function: every
\* insert into ACTION, in order.
get_slr1_table(g) == table_after(g, get_follow(g))

(***************************************************************************)
(* The driver slr1_analysis                                                *)
(***************************************************************************)

Token(ty, val) == [token_type |-> ty, token_value |-> val]

\* every token stands for its own text
terminal_of_text(token) == token.token_value

\* slr1_analysis, lines 255-259 : the terminal a token stands for
terminal_of(token) ==
  IF token.token_type = "Identifier" THEN "id"
  ELSE IF token.token_type = "Constant" THEN "value"
  ELSE token.token_value

\* slr1_analysis, lines 253-261 : the initial buffer
init_buffer(toks) == [k \in DOMAIN toks |-> terminal_of(toks[k])] \o <<END>>

\* Vec::pop n times (pop on an empty Vec is a no-op)
PopN(stack, n) == SubSeq(stack, 1, IF Len(stack) >= n THEN Len(stack) - n ELSE 0)

\* slr1_analysis, lines 272-329 : one iteration of the loop.  kind is
\* "shift" or "reduce" (the loop goes on), "accept" (return true), "error"
\* (return false) or "panic" (an unwrap or an index failed).
driver_step(gr, Action, Goto, ss, sy, buf) ==
  LET stay(kind) == [kind |-> kind, state_stack |-> ss, symbol_stack |-> sy,
                     buffer |-> buf, production |-> -1]
  IN IF Len(ss) = 0 THEN stay("panic")
     ELSE LET state == ss[Len(ss)]
          IN IF Len(buf) = 0 THEN stay("error")
             ELSE IF state + 1 > Len(Action) THEN stay("panic")
             ELSE IF buf[1] \notin DOMAIN Action[state + 1] THEN stay("error")
             ELSE LET action == Action[state + 1][buf[1]]
                  IN IF action.kind = "s"
                     THEN [kind |-> "shift", state_stack |-> Append(ss, action.n),
                           symbol_stack |-> Append(sy, buf[1]), buffer |-> Tail(buf),
                           production |-> -1]
                     ELSE IF action.kind = "r"
                     THEN IF action.n + 1 > Len(gr.p) THEN stay("panic")
                          ELSE LET p   == gr.p[action.n + 1]
                                   ss1 == PopN(ss, Len(p.right))
                                   sy1 == Append(PopN(sy, Len(p.right)), p.left)
                               IN IF Len(ss1) = 0 THEN stay("panic")
                                  ELSE LET s == ss1[Len(ss1)]
                                       IN IF \/ s + 1 > Len(Goto)
                                             \/ p.left \notin DOMAIN Goto[s + 1]
                                             \/ Goto[s + 1][p.left] = Empty
                                          THEN stay("panic")
                                          ELSE [kind |-> "reduce",
                                                state_stack |-> Append(ss1, Goto[s + 1][p.left].n),
                                                symbol_stack |-> sy1, buffer |-> buf,
                                                production |-> action.n]
                     ELSE IF action.kind = "acc" THEN stay("accept")
                     ELSE stay("error")

(***************************************************************************)
(* lexical_analysis.rs : remove_comment.  A text is the list of its        *)
(* characters; i is the position of the next character of chars            *)
(***************************************************************************)

\* Ok(result)
Stripped(result) == [ok |-> TRUE, text |-> result]

\* Err("multiline comment not closed at row:column")
NotClosed(row, column) == [ok |-> FALSE, row |-> row, column |-> column]

RECURSIVE rc_scan(_, _, _, _, _)
RECURSIVE rc_line(_, _, _, _, _)
RECURSIVE rc_block(_, _, _, _, _, _)

\* remove_comment, lines 296-357 : the outer while let
rc_scan(input, i, row, column, result) ==
  IF i > Len(input) THEN Stripped(result)
  ELSE IF input[i] = "\n"
  THEN rc_scan(input, i + 1, row + 1, 0, Append(result, "\n"))
  ELSE IF input[i] # "/"
  THEN rc_scan(input, i + 1, row, column + 1, Append(result, input[i]))
  ELSE IF i + 1 > Len(input)
  THEN rc_scan(input, i + 1, row, column + 1, Append(result, "/"))
  ELSE IF input[i + 1] = "/"
  THEN rc_line(input, i + 2, row, column + 1, result)
  ELSE IF input[i + 1] = "*"
  THEN rc_block(input, i + 2, row, column + 1, result, NotClosed(row, column + 1))
  ELSE rc_scan(input, i + 2, row, column + 1, result \o << "/", input[i + 1] >>)

\* remove_comment, lines 306-313 : the rest of a single-line comment
rc_line(input, i, row, column, result) ==
  IF i > Len(input) THEN Stripped(result)
  ELSE IF input[i] = "\n"
  THEN rc_scan(input, i + 1, row + 1, 0, Append(result, "\n"))
  ELSE rc_line(input, i + 1, row, column, result)

\* remove_comment, lines 316-341 : the rest of a block comment; err is the
\* error of start_pos.  After a * the next character is taken from chars
\* whatever it is (line 326)
rc_block(input, i, row, column, result, err) ==
  IF i > Len(input) THEN err
  ELSE IF input[i] = "\n" THEN rc_block(input, i + 1, row + 1, 0, result, err)
  ELSE IF input[i] # "*" THEN rc_block(input, i + 1, row, column, result, err)
  ELSE IF i + 1 > Len(input) THEN err
  ELSE IF input[i + 1] = "/" THEN rc_scan(input, i + 2, row, column, result)
  ELSE rc_block(input, i + 2, row, column, result, err)

\* remove_comment
remove_comment(input) == rc_scan(input, 1, 1, 0, <<>>)

(***************************************************************************)
(* lexical_analysis.rs : process.  A line is the list of its characters    *)
(***************************************************************************)

KEYWORDS ==
  { "char", "double", "enum", "float", "int", "long", "short", "signed",
    "struct", "union", "unsigned", "void", "for", "do", "while", "break",
    "continue", "if", "else", "goto", "switch", "case", "default", "return",
    "auto", "extern", "register", "static", "const", "sizeof", "typeof",
    "volatile" }

OPERATOR ==
  { "+", "-", "*", "/", "%", "++", "--", "==", "!=", ">", "<", ">=", "<=",
    "&", "|", "&&", "||", "!", "=", "+=", "-=", "/=", "%=" }

DELIMITERS == { "{", "}", "[", "]", "(", ")", ",", ".", ";" }

\* char::is_ascii_digit
Digits == { "0", "1", "2", "3", "4", "5", "6", "7", "8", "9" }

\* char::is_alphabetic, on the letters of ASCII
Letters ==
  { "a", "b", "c", "d", "e", "f", "g", "h", "i", "j", "k", "l", "m", "n", "o",
    "p", "q", "r", "s", "t", "u", "v", "w", "x", "y", "z",
    "A", "B", "C", "D", "E", "F", "G", "H", "I", "J", "K", "L", "M", "N", "O",
    "P", "Q", "R", "S", "T", "U", "V", "W", "X", "Y", "Z" }

\* the String made of the characters of a list
RECURSIVE Text(_)
Text(chars) == IF chars = <<>> THEN "" ELSE chars[1] \o Text(Tail(chars))

\* the character ends a word: a space, an operator or a delimiter
\* (lines 147-149, 232-234)
EndsWord(c) == c = " " \/ c \in OPERATOR \/ c \in DELIMITERS

\* the first position from i on whose character is in the set S, the position
\* past the end of the line if there is none
FirstIn(line, i, S) == Min0({ k \in i..Len(line) : line[k] \in S } \cup { Len(line) + 1 })

\* the first position from i on whose character is not in the set S
FirstNotIn(line, i, S) == Min0({ k \in i..Len(line) : line[k] \notin S } \cup { Len(line) + 1 })

\* the first position from i on whose character ends a word
WordEnd(line, i) == Min0({ k \in i..Len(line) : EndsWord(line[k]) } \cup { Len(line) + 1 })

\* result.push(Token { .. }) ; an Error token sets error when flagged
push_token(st, ty, chars, flagged) ==
  [st EXCEPT !.tokens = Append(@, Token(ty, Text(chars))), !.error = @ \/ flagged]

\* process, lines 128-144 : a number followed by the end of the line, an
\* operator, a delimiter or a space; nothing is pushed without a '.'
number_token(st, number) ==
  IF ~Contains(number, ".") THEN st
  ELSE IF Cardinality({ k \in DOMAIN number : number[k] = "." }) > 1
  THEN push_token(st, "Error", number, TRUE)
  ELSE push_token(st, "Constant", number, FALSE)

\* process, lines 181-194 : a character constant
char_token(st, constant) ==
  IF Len(constant) = 3 THEN push_token(st, "Constant", constant, FALSE)
  ELSE push_token(st, "Error", constant, TRUE)

\* process, lines 214-225 : a string constant
string_token(st, constant) ==
  IF Len(constant) >= 2 /\ constant[1] = "\"" /\ constant[Len(constant)] = "\""
  THEN push_token(st, "Constant", constant, FALSE)
  ELSE push_token(st, "Error", constant, TRUE)

\* process, lines 243-262 : a keyword, an identifier or an error that leaves
\* the flag as it is
word_token(st, identifier) ==
  IF Text(identifier) \in KEYWORDS THEN push_token(st, "Keyword", identifier, FALSE)
  ELSE IF identifier[1] = "_" \/ identifier[1] \in Letters
  THEN push_token(st, "Identifier", identifier, FALSE)
  ELSE push_token(st, "Error", identifier, FALSE)

RECURSIVE scan_line(_, _, _)

\* process, lines 170-179, 202-211 : the constant from the quote at i to the
\* next quote q, or to the end of the line
quoted_end(line, i, q) == Min0({ FirstIn(line, i + 1, { q }), Len(line) })

\* process, lines 123-163 : the number line[i..j-1] has been read.
\* chars.peek().unwrap() panics at the end of the line unless the number is
\* the whole line
scan_number(line, i, j, st) ==
  IF j - i = Len(line) THEN scan_line(line, j, number_token(st, SubSeq(line, i, j - 1)))
  ELSE IF j > Len(line) THEN [st EXCEPT !.panic = TRUE]
  ELSE IF EndsWord(line[j])
  THEN scan_line(line, j, number_token(st, SubSeq(line, i, j - 1)))
  ELSE scan_line(line, WordEnd(line, j),
                 push_token(st, "Error", SubSeq(line, i, WordEnd(line, j) - 1), TRUE))

\* process, lines 75-263 : the characters of the line from position i on
scan_line(line, i, st) ==
  IF st.panic \/ i > Len(line) THEN st
  ELSE IF line[i] = " " THEN scan_line(line, i + 1, st)
  ELSE IF line[i] \in DELIMITERS
  THEN scan_line(line, i + 1, push_token(st, "Delimiter", << line[i] >>, FALSE))
  ELSE IF line[i] \in OPERATOR
  THEN IF i < Len(line) /\ (line[i] \o line[i + 1]) \in OPERATOR
       THEN scan_line(line, i + 2, push_token(st, "Operator", SubSeq(line, i, i + 1), FALSE))
       ELSE scan_line(line, i + 1, push_token(st, "Operator", << line[i] >>, FALSE))
  ELSE IF line[i] \in Digits
  THEN scan_number(line, i, FirstNotIn(line, i + 1, Digits \cup { "." }), st)
  ELSE IF line[i] = "'"
  THEN scan_line(line, quoted_end(line, i, "'") + 1,
                 char_token(st, SubSeq(line, i, quoted_end(line, i, "'"))))
  ELSE IF line[i] = "\""
  THEN scan_line(line, quoted_end(line, i, "\"") + 1,
                 string_token(st, SubSeq(line, i, quoted_end(line, i, "\""))))
  ELSE scan_line(line, WordEnd(line, i + 1),
                 word_token(st, SubSeq(line, i, WordEnd(line, i + 1) - 1)))

\* process, line 72 : the lines from index n on
RECURSIVE scan_lines(_, _, _)
scan_lines(input, n, st) ==
  IF st.panic \/ n > Len(input) THEN st
  ELSE scan_lines(input, n + 1, scan_line(input[n], 1, st))

\* process : the tokens and the flag it returns; panic when an unwrap failed
process(input) ==
  scan_lines(input, 1, [tokens |-> <<>>, error |-> FALSE, panic |-> FALSE])

(***************************************************************************)
(* Inputs: grammars and token sequences                                    *)
(***************************************************************************)

\* the largest number of productions of an enumerated grammar
MaxProds == 3

\* the largest number of tokens of an enumerated token sequence
MaxTokens == 2

\* the sequences of at most n elements of the list pool, no element taken twice
RECURSIVE Arrangements(_, _)
Arrangements(pool, n) ==
  IF n = 0 THEN { <<>> }
  ELSE LET shorter == Arrangements(pool, n - 1)
       IN shorter \cup UNION { { Append(q, x) : x \in Elems(pool) \ Elems(q) } :
                               q \in { r \in shorter : Len(r) = n - 1 } }

\* the sequences of at most n elements of the set S
RECURSIVE SeqsUpTo(_, _)
SeqsUpTo(S, n) ==
  IF n = 0 THEN { <<>> }
  ELSE SeqsUpTo(S, n - 1) \cup [1..n -> S]

\* the canonical expression grammar of the tests (GRAMMAR_YML)
ExprGrammar ==
  Grammar("E", <<"E", "E'", "T", "T'", "F">>, <<EPS, "+", "*", "(", ")", "id">>,
          << Product("E", <<"T", "E'">>),
             Product("E'", <<"+", "T", "E'">>),
             Product("E'", <<EPS>>),
             Product("T", <<"F", "T'">>),
             Product("T'", <<"*", "F", "T'">>),
             Product("T'", <<EPS>>),
             Product("F", <<"(", "E", ")">>),
             Product("F", <<"id">>) >>)

\* the productions the enumerated grammars are made of
ProductPool ==
  << Product("S", <<"id">>),
     Product("S", <<"A">>),
     Product("A", <<EPS>>),
     Product("A", <<"S">>),
     Product("S", <<"A", "S">>),
     Product("S", <<"S", "+", "S">>),
     Product("S", <<>>),
     Product("S", <<"A", "A">>),
     Product("S", <<"S">>),
     Product("A", <<"B">>),
     Product("S'", <<"id">>) >>

\* some production of p names the symbol x
Uses(p, x) == \E k \in DOMAIN p : p[k].left = x \/ Contains(p[k].right, x)

\* an enumerated grammar: start S, terminals id + ε, non-terminals S, A and,
\* when a production names them, B and S'
PoolGrammar(p) ==
  Grammar("S",
          <<"S", "A">> \o (IF Uses(p, "B") THEN <<"B">> ELSE <<>>)
                      \o (IF Uses(p, "S'") THEN <<"S'">> ELSE <<>>),
          <<"id", "+", EPS>>, p)

\* the largest length of the lists V and T of a grammar as grammar.yml may
\* hold it, valid or not
MaxSyms == 2

RawSyms == { "S", "a" }

\* the production lists of the grammars RawGrammars
RawProducts == { <<>> } \cup { << Product(l, <<r>>) >> : l \in RawSyms, r \in RawSyms }

\* grammars as Grammar::from_yml may return them: any lists V and T (repeated
\* and common elements included), any start symbol, at most one production
RawGrammars ==
  { Grammar(s, v, t, p) : s \in RawSyms, v \in SeqsUpTo(RawSyms, MaxSyms),
                          t \in SeqsUpTo(RawSyms, MaxSyms), p \in RawProducts }

\* a chain of unit productions, listed from the start symbol down:
\* S -> A, A -> B, B -> C, C -> id
ChainGrammar ==
  Grammar("S", <<"S", "A", "B", "C">>, <<"id">>,
          << Product("S", <<"A">>), Product("A", <<"B">>),
             Product("B", <<"C">>), Product("C", <<"id">>) >>)

\* A and B are reached in the order A, B after c and in the order B, A
\* after d: S -> c A | c B | d B | d A, A -> x, B -> x
OrderGrammar ==
  Grammar("S", <<"S", "A", "B">>, <<"c", "d", "x">>,
          << Product("S", <<"c", "A">>), Product("S", <<"c", "B">>),
             Product("S", <<"d", "B">>), Product("S", <<"d", "A">>),
             Product("A", <<"x">>), Product("B", <<"x">>) >>)

Grammars ==
  { PoolGrammar(p) : p \in Arrangements(ProductPool, MaxProds) }
    \cup { ExprGrammar, ChainGrammar, OrderGrammar } \cup RawGrammars

\* tokens as lexical_analysis classifies them; process (lines 230-261) turns
\* the text # into a token of kind Error with the value "#"
TokenPool ==
  { Token("Identifier", "x"), Token("Operator", "+"), Token("Constant", "1"),
    Token("Error", "#") }

\* x + x * x
ExprTokens ==
  << Token("Identifier", "x"), Token("Operator", "+"), Token("Identifier", "x"),
     Token("Operator", "*"), Token("Identifier", "x") >>

\* x + 1 ; : one token of each kind the buffer distinguishes, and a delimiter
MixedTokens ==
  << Token("Identifier", "x"), Token("Operator", "+"), Token("Constant", "1"),
     Token("Delimiter", ";") >>

TokenSeqs == SeqsUpTo(TokenPool, MaxTokens) \cup { ExprTokens, MixedTokens }

(***************************************************************************)
(* The program: main() runs validate, get_first, get_follow,               *)
(* get_slr1_table and then the driver loop on the tokens                   *)
(***************************************************************************)

VARIABLES
  g,             \* the grammar read from grammar.yml
  pc,            \* the position of main
  verdict,       \* what validate returned
  first,         \* what get_first returned
  follow,        \* what get_follow returned
  table,         \* what get_slr1_table returned
  tokens,        \* the tokens handed to slr1_analysis
  state_stack,   \* slr1_analysis: state_stack
  symbol_stack,  \* slr1_analysis: symbol_stack
  buffer,        \* slr1_analysis: buffer
  last_reduce,   \* history: the production of the latest reduction, -1 if none
  result,        \* what slr1_analysis returned: "none", "true", "false", "panic"
  items,         \* closure: the argument i
  closed,        \* closure: what it returned
  source,        \* remove_comment: the argument input, a list of characters
  stripped,      \* remove_comment: what it returned
  lines,         \* process: the argument input, a list of lines of characters
  lexed          \* process: what it returned

vars == << g, pc, verdict, first, follow, table, tokens,
           state_stack, symbol_stack, buffer, last_reduce, result,
           items, closed, source, stripped, lines, lexed >>

\* the variables of the functions main does not call on its own
units == << items, closed, source, stripped, lines, lexed >>

None == [ok |-> FALSE]

\* no call of closure or of remove_comment is under way
NoUnits ==
  /\ items = <<>>
  /\ closed = <<>>
  /\ source = <<>>
  /\ stripped = None
  /\ lines = <<>>
  /\ lexed = None

Init ==
  /\ g \in Grammars
  /\ pc = "start"
  /\ verdict = "none"
  /\ first = None
  /\ follow = None
  /\ table = None
  /\ tokens = <<>>
  /\ state_stack = <<>>
  /\ symbol_stack = <<>>
  /\ buffer = <<>>
  /\ last_reduce = -1
  /\ result = "none"
  /\ NoUnits

\* g.validate(); main stops on Err
Validate ==
  /\ pc = "start"
  /\ verdict' = validate(g)
  /\ pc' = IF verdict' = "Ok" THEN "validated" ELSE "invalid"
  /\ UNCHANGED units
  /\ UNCHANGED << g, first, follow, table, tokens, state_stack, symbol_stack,
                  buffer, last_reduce, result >>

\* get_first(&g)
GetFirst ==
  /\ pc = "validated"
  /\ first' = get_first(g)
  /\ pc' = IF first'.ok THEN "first" ELSE "panic"
  /\ UNCHANGED units
  /\ UNCHANGED << g, verdict, follow, table, tokens, state_stack, symbol_stack,
                  buffer, last_reduce, result >>

\* get_follow(&g)
GetFollow ==
  /\ pc = "first"
  /\ follow' = get_follow(g)
  /\ pc' = IF follow'.ok THEN "follow" ELSE "panic"
  /\ UNCHANGED units
  /\ UNCHANGED << g, verdict, first, table, tokens, state_stack, symbol_stack,
                  buffer, last_reduce, result >>

\* get_slr1_table(&g)
GetSlr1Table ==
  /\ pc = "follow"
  /\ table' = get_slr1_table(g)
  /\ pc' = IF table'.ok THEN "table" ELSE "panic"
  /\ UNCHANGED units
  /\ UNCHANGED << g, verdict, first, follow, tokens, state_stack, symbol_stack,
                  buffer, last_reduce, result >>

\* slr1_analysis, lines 248-261 : the stacks and the buffer before the loop
StartAnalysis(toks) ==
  /\ pc = "table"
  /\ tokens' = toks
  /\ state_stack' = <<0>>
  /\ symbol_stack' = <<END>>
  /\ buffer' = init_buffer(toks)
  /\ pc' = "loop"
  /\ UNCHANGED units
  /\ UNCHANGED << g, verdict, first, follow, table, last_reduce, result >>

Step == driver_step(g, table.Action, table.Goto, state_stack, symbol_stack, buffer)

\* a shift that pushes the state and leaves the symbol stack as it is
ShiftStateOnly ==
  /\ pc = "loop"
  /\ Step.kind = "shift"
  /\ state_stack' = Step.state_stack
  /\ buffer' = Step.buffer
  /\ UNCHANGED units
  /\ UNCHANGED << g, pc, verdict, first, follow, table, tokens, symbol_stack,
                  last_reduce, result >>

\* slr1_analysis, lines 291-300
Shift ==
  /\ pc = "loop"
  /\ Step.kind = "shift"
  /\ state_stack' = Step.state_stack
  /\ symbol_stack' = Step.symbol_stack
  /\ buffer' = Step.buffer
  /\ UNCHANGED units
  /\ UNCHANGED << g, pc, verdict, first, follow, table, tokens, last_reduce, result >>

\* slr1_analysis, lines 302-319
Reduce ==
  /\ pc = "loop"
  /\ Step.kind = "reduce"
  /\ state_stack' = Step.state_stack
  /\ symbol_stack' = Step.symbol_stack
  /\ last_reduce' = Step.production
  /\ UNCHANGED units
  /\ UNCHANGED << g, pc, verdict, first, follow, table, tokens, buffer, result >>

\* slr1_analysis, lines 321-324
Accept ==
  /\ pc = "loop"
  /\ Step.kind = "accept"
  /\ result' = "true"
  /\ pc' = "done"
  /\ UNCHANGED units
  /\ UNCHANGED << g, verdict, first, follow, table, tokens, state_stack,
                  symbol_stack, buffer, last_reduce >>

\* slr1_analysis, lines 276-279, 284-287, 326-329 : return false; and lines
\* 272, 305, 315-318 : an index or an unwrap that fails ends the call by a panic
Reject ==
  /\ pc = "loop"
  /\ Step.kind \in {"error", "panic"}
  /\ result' = IF Step.kind = "error" THEN "false" ELSE "panic"
  /\ pc' = "done"
  /\ UNCHANGED units
  /\ UNCHANGED << g, verdict, first, follow, table, tokens, state_stack,
                  symbol_stack, buffer, last_reduce >>

Next ==
  \/ Validate
  \/ GetFirst
  \/ GetFollow
  \/ GetSlr1Table
  \/ \E toks \in TokenSeqs : StartAnalysis(toks)
  \/ Shift
  \/ Reduce
  \/ Accept
  \/ Reject

Spec == Init /\ [][Next]_vars

(***************************************************************************)
(* slr1_analysis called on its own: a public function that takes any pair  *)
(* of tables                                                               *)
(***************************************************************************)

\* the grammar of the hand-made tables: production 0 is S -> id, production
\* 1 is S -> ε
DriverGrammar ==
  Grammar("S", <<"S">>, <<"id", EPS>>,
          << Product("S", <<"id">>), Product("S", <<EPS>>) >>)

\* the texts an ACTION cell and a GOTO cell of a two-state table may hold:
\* "", "s1", "r0", "r1", "acc" and "", "1"
ActionCells == { Empty, Act("s", 1), Act("r", 0), Act("r", 1), Act("acc", 0) }
GotoCells == { Empty, Act("g", 1) }

\* a row of ACTION (columns id and #) and a row of GOTO (column S)
ActionRows == { ("id" :> a) @@ (END :> b) : a \in ActionCells, b \in ActionCells }
GotoRows == { ("S" :> c) : c \in GotoCells }

\* every pair of tables with two states
TablePairs ==
  { [ok |-> TRUE, Action |-> <<a0, a1>>, Goto |-> <<g0, g1>>,
     warnings |-> <<>>, writes |-> <<>>,
     outreach_g |-> augment(DriverGrammar), lr0_items |-> <<>>] :
    a0 \in ActionRows, a1 \in ActionRows, g0 \in GotoRows, g1 \in GotoRows }

\* the caller holds a grammar and a pair of tables
InitDriver ==
  /\ g = DriverGrammar
  /\ pc = "table"
  /\ verdict = "Ok"
  /\ first = None
  /\ follow = None
  /\ table \in TablePairs
  /\ tokens = <<>>
  /\ state_stack = <<>>
  /\ symbol_stack = <<>>
  /\ buffer = <<>>
  /\ last_reduce = -1
  /\ result = "none"
  /\ NoUnits

NextDriver ==
  \/ \E toks \in TokenSeqs : StartAnalysis(toks)
  \/ Shift
  \/ Reduce
  \/ Accept
  \/ Reject

SpecDriver == InitDriver /\ [][NextDriver]_vars

\* the grammars of the unit production S -> S: the lists of productions taken
\* from S -> id, S -> S and S -> S + S
UnitGrammars ==
  { PoolGrammar(p) :
      p \in Arrangements(<< Product("S", <<"id">>), Product("S", <<"S">>),
                           Product("S", <<"S", "+", "S">>) >>, MaxProds) }

InitFair ==
  /\ g \in UnitGrammars
  /\ pc = "start"
  /\ verdict = "none"
  /\ first = None
  /\ follow = None
  /\ table = None
  /\ tokens = <<>>
  /\ state_stack = <<>>
  /\ symbol_stack = <<>>
  /\ buffer = <<>>
  /\ last_reduce = -1
  /\ result = "none"
  /\ NoUnits

(***************************************************************************)
(* closure called on a list of items, and again on what it returned        *)
(***************************************************************************)

\* the largest number of productions of a grammar closure is called with,
\* the production of the new start symbol not counted
MaxClosureProds == 2

\* the largest number of items of the list closure is called with
MaxItems == 2

\* the augmented grammars get_lr0_collection and goto hand to closure
ClosureGrammars ==
  { augment(PoolGrammar(p)) :
      p \in Arrangements(<< Product("S", <<"id">>), Product("S", <<"A">>),
                           Product("A", <<EPS>>), Product("A", <<"S">>),
                           Product("S", <<"A", "S">>) >>, MaxClosureProds) }

\* the items of the productions of gr, the dot at any position
ItemsOf(gr) ==
  UNION { { Item(gr.p[k].left, gr.p[k].right, d) : d \in 0..Len(gr.p[k].right) } :
          k \in DOMAIN gr.p }

InitClosure ==
  /\ g \in ClosureGrammars
  /\ pc = "closure"
  /\ verdict = "Ok"
  /\ first = None
  /\ follow = None
  /\ table = None
  /\ tokens = <<>>
  /\ state_stack = <<>>
  /\ symbol_stack = <<>>
  /\ buffer = <<>>
  /\ last_reduce = -1
  /\ result = "none"
  /\ items \in SeqsUpTo(ItemsOf(g), MaxItems)
  /\ closed = <<>>
  /\ source = <<>>
  /\ stripped = None
  /\ lines = <<>>
  /\ lexed = None

\* closure(&items, &g) ; closed lists what the calls returned
Closure ==
  /\ pc = "closure"
  /\ closed' = << closure(items, g) >>
  /\ pc' = "closed"
  /\ UNCHANGED << g, verdict, first, follow, table, tokens, state_stack,
                  symbol_stack, buffer, last_reduce, result, items, source, stripped,
                  lines, lexed >>

\* closure called on what the first call returned
Reclose ==
  /\ pc = "closed"
  /\ closed' = Append(closed, closure(closed[1], g))
  /\ pc' = "reclosed"
  /\ UNCHANGED << g, verdict, first, follow, table, tokens, state_stack,
                  symbol_stack, buffer, last_reduce, result, items, source, stripped,
                  lines, lexed >>

NextClosure == Closure \/ Reclose

SpecClosure == InitClosure /\ [][NextClosure]_vars

(***************************************************************************)
(* remove_comment called on a text                                         *)
(***************************************************************************)

\* the largest number of characters of a text
MaxText == 6

\* the characters of a text: the two of the comment marks, a newline and one
\* that stands for every other character
Chars == { "/", "*", "\n", "a" }

Texts == SeqsUpTo(Chars, MaxText)

InitLexer ==
  /\ g = DriverGrammar
  /\ pc = "text"
  /\ verdict = "none"
  /\ first = None
  /\ follow = None
  /\ table = None
  /\ tokens = <<>>
  /\ state_stack = <<>>
  /\ symbol_stack = <<>>
  /\ buffer = <<>>
  /\ last_reduce = -1
  /\ result = "none"
  /\ items = <<>>
  /\ closed = <<>>
  /\ source \in Texts
  /\ stripped = None
  /\ lines = <<>>
  /\ lexed = None

\* preprocess, line 273 : remove_comment(input)
RemoveComment ==
  /\ pc = "text"
  /\ stripped' = remove_comment(source)
  /\ pc' = "stripped"
  /\ UNCHANGED << g, verdict, first, follow, table, tokens, state_stack,
                  symbol_stack, buffer, last_reduce, result, items, closed, source,
                  lines, lexed >>

NextLexer == RemoveComment

SpecLexer == InitLexer /\ [][NextLexer]_vars

(***************************************************************************)
(* process called on the lines preprocess returns                          *)
(***************************************************************************)

\* the largest number of characters of a line
MaxLine == 4

\* the characters of a line: a space, a delimiter, two operators, a digit,
\* the decimal point, two letters (do is a keyword), the two quotes and a
\* character of no lexeme
LineChars == { " ", ";", "+", "=", "1", ".", "d", "o", "'", "\"", "#" }

\* preprocess, lines 275-279 : the lines are trimmed and not empty
TrimmedLines ==
  { l \in SeqsUpTo(LineChars, MaxLine) : l # <<>> /\ l[1] # " " /\ l[Len(l)] # " " }

\* the inputs of process: one line, or the two lines d = 1.1; and do
ProcessInputs ==
  { << l >> : l \in TrimmedLines }
    \cup { << <<"d", " ", "=", " ", "1", ".", "1", ";">>, <<"d", "o">> >> }

InitProcess ==
  /\ g = DriverGrammar
  /\ pc = "lines"
  /\ verdict = "none"
  /\ first = None
  /\ follow = None
  /\ table = None
  /\ tokens = <<>>
  /\ state_stack = <<>>
  /\ symbol_stack = <<>>
  /\ buffer = <<>>
  /\ last_reduce = -1
  /\ result = "none"
  /\ items = <<>>
  /\ closed = <<>>
  /\ source = <<>>
  /\ stripped = None
  /\ lines \in ProcessInputs
  /\ lexed = None

\* lexical_analysis, line 9 : process(after_preprocessing)
Process ==
  /\ pc = "lines"
  /\ lexed' = process(lines)
  /\ pc' = "lexed"
  /\ UNCHANGED << g, verdict, first, follow, table, tokens, state_stack,
                  symbol_stack, buffer, last_reduce, result, items, closed,
                  source, stripped, lines >>

NextProcess == Process

SpecProcess == InitProcess /\ [][NextProcess]_vars

\* one iteration of the loop of slr1_analysis
Iterate == Shift \/ Reduce \/ Accept \/ Reject

\* the parser half of main: the loop is sequential code, so an iteration that
\* can be taken is taken
SpecFair == InitFair /\ [][Next]_vars /\ WF_vars(Iterate)

(***************************************************************************)
(* Notions of grammar theory the properties are stated with.  They are     *)
(* defined on the grammar alone, as least fixed points over sets.          *)
(***************************************************************************)

\* x is ε or a non-terminal of N
InNullable(N, x) == x = EPS \/ x \in N

\* the non-terminals with a production whose right symbols are all ε or in N
NullableStep(gr, N) ==
  N \cup { gr.p[i].left : i \in { k \in DOMAIN gr.p :
                                   \A m \in DOMAIN gr.p[k].right :
                                     InNullable(N, gr.p[k].right[m]) } }

RECURSIVE NullableFrom(_, _)
NullableFrom(gr, N) ==
  IF NullableStep(gr, N) = N THEN N ELSE NullableFrom(gr, NullableStep(gr, N))

\* the non-terminals A with A =>* the empty string
Nullable(gr) == NullableFrom(gr, {})

\* a =>* the empty string, for a sequence a of symbols
SeqNullable(gr, a) == \A m \in DOMAIN a : InNullable(Nullable(gr), a[m])

\* the terminals other than ε that begin a string derived from the symbol x,
\* given F[A] for the non-terminals
SymFirst(F, x) == IF x = EPS THEN {} ELSE IF x \in DOMAIN F THEN F[x] ELSE {x}

\* the same for a sequence a of symbols
SeqFirstIn(gr, F, a) ==
  UNION { SymFirst(F, a[m]) :
          m \in { k \in DOMAIN a : SeqNullable(gr, SubSeq(a, 1, k - 1)) } }

FirstStep(gr, F) ==
  [A \in DOMAIN F |->
     F[A] \cup UNION { SeqFirstIn(gr, F, gr.p[i].right) :
                       i \in { k \in DOMAIN gr.p : gr.p[k].left = A } }]

RECURSIVE FirstFrom(_, _)
FirstFrom(gr, F) ==
  IF FirstStep(gr, F) = F THEN F ELSE FirstFrom(gr, FirstStep(gr, F))

\* FIRST(a) \ {ε} for a sequence a of symbols
SeqFirst(gr, a) == SeqFirstIn(gr, FirstFrom(gr, [A \in Elems(gr.v) |-> {}]), a)

\* the strings x \o y, x in L1 and y in L2, of length at most n
Cat(L1, L2, n) ==
  { q[1] \o q[2] : q \in { r \in L1 \X L2 : Len(r[1]) + Len(r[2]) <= n } }

\* the strings of terminals the symbol x derives, given L[A] for the non-terminals
SymLang(L, x) == IF x = EPS THEN { <<>> } ELSE IF x \in DOMAIN L THEN L[x] ELSE { <<x>> }

\* the strings of length at most n the sequence a of symbols derives
RECURSIVE SeqLang(_, _, _)
SeqLang(L, a, n) ==
  IF a = <<>> THEN { <<>> }
  ELSE Cat(SeqLang(L, SubSeq(a, 1, Len(a) - 1), n), SymLang(L, a[Len(a)]), n)

LangStep(gr, L, n) ==
  [A \in DOMAIN L |->
     L[A] \cup UNION { SeqLang(L, gr.p[i].right, n) :
                       i \in { k \in DOMAIN gr.p : gr.p[k].left = A } }]

RECURSIVE LangFrom(_, _, _)
LangFrom(gr, L, n) ==
  IF LangStep(gr, L, n) = L THEN L ELSE LangFrom(gr, LangStep(gr, L, n), n)

\* S =>* w, for a sequence w of terminals
Derives(gr, w) == w \in LangFrom(gr, [A \in Elems(gr.v) |-> {}], Len(w))[gr.s]

\* CLOSURE of a set I of items: the least set holding I and, with A -> α·Bβ,
\* every B -> ·γ
ClosureStep(gr, I) ==
  I \cup { new_item(gr.p[i]) :
           i \in { k \in DOMAIN gr.p :
                     \E it \in I : /\ it.dot < Len(it.right)
                                   /\ dot_symbol(it) = gr.p[k].left } }

RECURSIVE ClosureFrom(_, _)
ClosureFrom(gr, I) ==
  IF ClosureStep(gr, I) = I THEN I ELSE ClosureFrom(gr, ClosureStep(gr, I))

\* the terminals the driver reads for the tokens
Terminals(toks) == [k \in DOMAIN toks |-> terminal_of(toks[k])]

(***************************************************************************)
(* Properties                                                              *)
(***************************************************************************)

\* main is past the call of get_first / get_follow
FirstCalled == verdict = "Ok" /\ pc # "validated"
FollowCalled == first.ok /\ pc # "first"

\* C1: for the canonical expression grammar and the input id + id * id the
\* driver, run on the tables of get_slr1_table, returns true, and the last
\* reduction before the accept step is by production 0.
C1_ExprAccepted ==
  (g = ExprGrammar /\ tokens = ExprTokens /\ pc = "done")
    => (result = "true" /\ last_reduce = 0)

\* C2: for a validated grammar whose table construction reported no conflict
\* and any sequence w of terminals, the driver returns true if S derives w and
\* false if it does not.
C2_DriverDecides ==
  (pc = "done" /\ table.warnings = <<>>)
    => (result = IF Derives(g, Terminals(tokens)) THEN "true" ELSE "false")

\* C3: for a validated grammar and every non-terminal A, the list get_first
\* returns for A holds ε if and only if A derives the empty string.
C3_EpsilonIffNullable ==
  (FirstCalled /\ first.ok)
    => \A A \in Elems(g.v) : Contains(first.first[A], EPS) <=> A \in Nullable(g)

\* C4: for a validated grammar, the map of get_follow satisfies for every
\* production A -> αBβ with B a non-terminal: FIRST(β) \ {ε} is within
\* FOLLOW(B), and FOLLOW(A) is within FOLLOW(B) when β is empty or derives
\* the empty string, whatever the order of the productions.
C4_FollowClosed ==
  (FollowCalled /\ follow.ok)
    => \A i \in DOMAIN g.p : \A k \in DOMAIN g.p[i].right :
         Contains(g.v, g.p[i].right[k])
           => /\ SeqFirst(g, SubSeq(g.p[i].right, k + 1, Len(g.p[i].right)))
                   \subseteq Elems(follow.follow[g.p[i].right[k]])
              /\ SeqNullable(g, SubSeq(g.p[i].right, k + 1, Len(g.p[i].right)))
                   => Elems(follow.follow[g.p[i].left])
                        \subseteq Elems(follow.follow[g.p[i].right[k]])

\* C5: get_first and get_follow are total on a grammar that passed validate:
\* each returns a map, without a panic, also when a production has an empty
\* right side or a right side of two or more symbols that all have ε in FIRST.
C5_FirstFollowTotal ==
  /\ FirstCalled => first.ok
  /\ FollowCalled => follow.ok

\* the three conditions on the start symbol and the productions
SymbolsDeclared(gr) ==
  /\ Contains(gr.v, gr.s)
  /\ \A i \in DOMAIN gr.p : Contains(gr.v, gr.p[i].left)
  /\ \A i \in DOMAIN gr.p : \A k \in DOMAIN gr.p[i].right :
       Contains(gr.v, gr.p[i].right[k]) \/ Contains(gr.t, gr.p[i].right[k])

\* no element occurs twice in the list
NoRepeat(list) == \A i \in DOMAIN list : \A k \in DOMAIN list : list[i] = list[k] => i = k

\* C6 as stated: validate returns Ok exactly when no symbol is in both V and
\* T, S is in V, every left is in V and every right symbol is in V or T.
C6_OkIffFourConditions ==
  pc # "start"
    => (verdict = "Ok" <=> (Elems(g.v) \cap Elems(g.t) = {} /\ SymbolsDeclared(g)))

\* C6, amended: validate returns Ok exactly when the lists V and T together
\* hold no element twice (neither in both lists nor twice in one of them), S
\* is in V, every left is in V and every right symbol is in V or T; in every
\* other case it returns a GrammarError.
C6_OkIffNoRepeat ==
  pc # "start" => (verdict = "Ok" <=> (NoRepeat(g.v \o g.t) /\ SymbolsDeclared(g)))

\* validate has rejected a grammar that meets the four conditions as stated:
\* an element occurs twice in V or twice in T
C6_RepeatRejected ==
  /\ pc = "invalid"
  /\ verdict = "ErrDuplicate"
  /\ Elems(g.v) \cap Elems(g.t) = {}
  /\ SymbolsDeclared(g)

\* C7: for a validated grammar, the start symbol S' of the augmented grammar
\* is not in V or T of the input grammar, S' -> S is the only production with
\* left S', and S' is on the right side of no production.
C7_FreshStart ==
  table.ok
    => /\ ~Contains(g.v, table.outreach_g.s)
       /\ ~Contains(g.t, table.outreach_g.s)
       /\ \A i \in DOMAIN table.outreach_g.p :
            /\ table.outreach_g.p[i].left = table.outreach_g.s
                 => table.outreach_g.p[i].right = <<g.s>>
            /\ ~Contains(table.outreach_g.p[i].right, table.outreach_g.s)

\* C8: for a validated grammar, state 0 of the collection is, as a set,
\* CLOSURE({S' -> .S}), and the item S' -> S. is in exactly one state.
C8_StartAndAcceptState ==
  table.ok
    => /\ Elems(table.lr0_items[1])
            = ClosureFrom(table.outreach_g, { Item(table.outreach_g.s, <<g.s>>, 0) })
       /\ Cardinality({ k \in DOMAIN table.lr0_items :
                          Contains(table.lr0_items[k],
                                   Item(table.outreach_g.s, <<g.s>>, 1)) }) = 1

\* the writes before the n-th that went to the same cell of ACTION
EarlierWrites(writes, n) ==
  { m \in 1..(n - 1) : writes[m].state = writes[n].state /\ writes[m].sym = writes[n].sym }

\* the greatest element of a non-empty set of numbers
Max(S) == CHOOSE i \in S : \A k \in S : k <= i

\* the n-th write found another non-empty action in its cell
Overwrites(writes, n) ==
  /\ EarlierWrites(writes, n) # {}
  /\ writes[Max(EarlierWrites(writes, n))].action # writes[n].action

\* C9: whenever get_slr1_table writes an ACTION cell that holds a different
\* non-empty action, a diagnostic names the state, the symbol and both
\* actions, and the later write is kept.
C9_ConflictReported ==
  table.ok
    => \A n \in DOMAIN table.writes :
         /\ Overwrites(table.writes, n)
              => \E w \in DOMAIN table.warnings :
                   /\ table.warnings[w].table = "ACTION"
                   /\ table.warnings[w].state = table.writes[n].state
                   /\ table.warnings[w].sym = table.writes[n].sym
                   /\ table.warnings[w].old
                        = table.writes[Max(EarlierWrites(table.writes, n))].action
                   /\ table.warnings[w].new = table.writes[n].action
         /\ (\A m \in (n + 1)..Len(table.writes) : n \notin EarlierWrites(table.writes, m))
              => table.Action[table.writes[n].state + 1][table.writes[n].sym]
                   = table.writes[n].action

\* the states (rows) that hold the item A -> .ε of production i
StatesOfEpsilonItem(i) ==
  { k \in DOMAIN table.lr0_items : Contains(table.lr0_items[k], new_item(g.p[i])) }

\* C10: in the ACTION table of a validated grammar no state has a shift
\* under ε, and a production A -> ε gives only reduce actions, placed under
\* the symbols of FOLLOW(A).
C10_NoEpsilonShift ==
  table.ok
    => /\ \A k \in DOMAIN table.Action :
            EPS \in DOMAIN table.Action[k] => table.Action[k][EPS].kind # "s"
       /\ \A i \in { n \in DOMAIN g.p : g.p[n].right = <<EPS>> } :
            \A k \in StatesOfEpsilonItem(i) :
              \A a \in Elems(follow.follow[g.p[i].left]) :
                table.Action[k][a].kind \in {"r", "acc"}

\* C11: for every pair of tables and every token sequence, each failure of
\* the driver (no ACTION column for the lookahead, an empty ACTION cell, an
\* empty GOTO cell or an exhausted stack after the pops of a reduction) makes
\* slr1_analysis return false; it never ends by a panic.
C11_FailFast ==
  /\ pc = "done" => result \in {"true", "false"}
  /\ (pc = "loop" /\ Step.kind \in {"error", "panic"}) => Step.kind = "error"

\* C12: for every validated grammar, conflicting ones included, and every
\* finite token sequence the loop of slr1_analysis ends: a call that has
\* entered the loop returns (true or false).
C12_Terminates == (pc = "loop") ~> (pc = "done")

\* a reduction that leaves both stacks and the buffer as they were: the loop
\* is back in the configuration it started the iteration in
C12_SpinningConfiguration ==
  /\ pc = "loop"
  /\ verdict = "Ok"
  /\ Step.kind = "reduce"
  /\ Step.state_stack = state_stack
  /\ Step.symbol_stack = symbol_stack

\* C13: whenever slr1_analysis returns true every token has been shifted:
\* the accept happens with the appended end marker as the lookahead and with
\* nothing else left in the buffer, whatever the texts of the tokens are.
C13_AcceptAtEnd ==
  (pc = "done" /\ result = "true") => buffer = <<END>>

\* the buffer the call of slr1_analysis on toks starts with: buf has one entry
\* per token, in order, and the end marker after them
IsInitialBuffer(buf, toks) ==
  /\ Len(buf) = Len(toks) + 1
  /\ buf[Len(buf)] = "#"
  /\ \A k \in DOMAIN toks :
       /\ toks[k].token_type = "Identifier" => buf[k] = "id"
       /\ toks[k].token_type = "Constant" => buf[k] = "value"
       /\ toks[k].token_type \notin {"Identifier", "Constant"} =>
            buf[k] = toks[k].token_value

\* C14: the driver starts with the buffer made of the tokens mapped in order
\* (an Identifier to id, a Constant to value, any other token to its text)
\* followed by #, with state_stack = [0] and symbol_stack = [#].
C14_InitialConfiguration ==
  [][ (pc = "table" /\ pc' = "loop") =>
        /\ IsInitialBuffer(buffer', tokens')
        /\ state_stack' = <<0>>
        /\ symbol_stack' = <<"#">> ]_vars

\* the driver has been started on x + 1 ; and has not taken a step yet
C14_StartedOnMixedTokens ==
  /\ pc = "loop"
  /\ tokens = MixedTokens
  /\ buffer = <<"id", "+", "value", ";", "#">>
  /\ state_stack = <<0>>
  /\ symbol_stack = <<"#">>

\* C15: for the canonical expression grammar get_first returns, as sets,
\* FIRST(E) = FIRST(T) = FIRST(F) = {(, id}, FIRST(E') = {+, ε},
\* FIRST(T') = {*, ε}, and FIRST(a) = {a} for each terminal a, ε included.
C15_ExprFirst ==
  (g = ExprGrammar /\ FirstCalled) =>
    /\ first.ok
    /\ DOMAIN first.first = {"E", "E'", "T", "T'", "F", "ε", "+", "*", "(", ")", "id"}
    /\ Elems(first.first["E"]) = {"(", "id"}
    /\ Elems(first.first["E'"]) = {"+", "ε"}
    /\ Elems(first.first["T"]) = {"(", "id"}
    /\ Elems(first.first["T'"]) = {"*", "ε"}
    /\ Elems(first.first["F"]) = {"(", "id"}
    /\ \A a \in {"ε", "+", "*", "(", ")", "id"} : Elems(first.first[a]) = {a}

\* get_first has returned for the expression grammar
C15_ExprFirstComputed ==
  g = ExprGrammar /\ FirstCalled /\ first.ok /\ first.first["E"] # <<>>

\* C16: for the canonical expression grammar get_follow returns, as sets,
\* FOLLOW(E) = FOLLOW(E') = {#, )}, FOLLOW(T) = FOLLOW(T') = {#, ), +},
\* FOLLOW(F) = {#, ), *, +}: # is in FOLLOW of the start symbol and there is
\* no entry for a symbol outside V.
C16_ExprFollow ==
  (g = ExprGrammar /\ FollowCalled) =>
    /\ follow.ok
    /\ DOMAIN follow.follow = {"E", "E'", "T", "T'", "F"}
    /\ Elems(follow.follow["E"]) = {"#", ")"}
    /\ Elems(follow.follow["E'"]) = {"#", ")"}
    /\ Elems(follow.follow["T"]) = {"#", ")", "+"}
    /\ Elems(follow.follow["T'"]) = {"#", ")", "+"}
    /\ Elems(follow.follow["F"]) = {"#", ")", "*", "+"}

\* get_follow has returned for the expression grammar
C16_ExprFollowComputed ==
  g = ExprGrammar /\ FollowCalled /\ follow.ok /\ Contains(follow.follow["F"], "*")

\* C17: every list returned by get_first and by get_follow holds no symbol
\* twice.
C17_NoDuplicates ==
  /\ (FirstCalled /\ first.ok) => \A k \in DOMAIN first.first : NoRepeat(first.first[k])
  /\ (FollowCalled /\ follow.ok) => \A k \in DOMAIN follow.follow : NoRepeat(follow.follow[k])

\* C18: closure is idempotent and extensive: closure(closure(I)) has exactly
\* the items of closure(I), and closure(I) holds every item of I.
C18_ClosureIdempotent ==
  /\ pc \in {"closed", "reclosed"} =>
       \A k \in DOMAIN items : Contains(closed[1], items[k])
  /\ pc = "reclosed" =>
       /\ Elems(closed[2]) = Elems(closed[1])
       /\ Len(closed[2]) = Len(closed[1])

\* closure has been applied twice to a list it had items to add to
C18_ClosureGrew ==
  /\ pc = "reclosed"
  /\ items # <<>>
  /\ Len(closed[1]) > Len(items) + 1

\* the smallest element of a non-empty set of numbers
Least(S) == CHOOSE x \in S : \A y \in S : x <= y

\* the positions from i on where text holds the character c
PositionsOf(text, c, i) == { k \in i..Len(text) : text[k] = c }

\* the positions from i on where text holds * followed by /
ClosingsFrom(text, i) == { k \in i..(Len(text) - 1) : text[k] = "*" /\ text[k + 1] = "/" }

\* a comment mark c opens at position i of text
OpensAt(text, i, c) == i < Len(text) /\ text[i] = "/" /\ text[i + 1] = c

\* the position after the single-line comment that opens at i: its newline,
\* or the end of the text
AfterLine(text, i) ==
  IF PositionsOf(text, "\n", i) = {} THEN Len(text) + 1
  ELSE Least(PositionsOf(text, "\n", i))

\* the position of the / that opens a block comment which is never closed,
\* reading text from position i on; 0 when there is none
RECURSIVE UnclosedFrom(_, _)
UnclosedFrom(text, i) ==
  IF i > Len(text) THEN 0
  ELSE IF OpensAt(text, i, "/") THEN UnclosedFrom(text, AfterLine(text, i))
  ELSE IF OpensAt(text, i, "*")
  THEN IF ClosingsFrom(text, i + 2) = {} THEN i
       ELSE UnclosedFrom(text, Least(ClosingsFrom(text, i + 2)) + 2)
  ELSE UnclosedFrom(text, i + 1)

\* text from position i on without its comments (every block comment closed)
RECURSIVE WithoutComments(_, _)
WithoutComments(text, i) ==
  IF i > Len(text) THEN <<>>
  ELSE IF OpensAt(text, i, "/") THEN WithoutComments(text, AfterLine(text, i))
  ELSE IF OpensAt(text, i, "*")
  THEN WithoutComments(text, Least(ClosingsFrom(text, i + 2)) + 2)
  ELSE << text[i] >> \o WithoutComments(text, i + 1)

\* the 1-based row and column of position n of text
RowOf(text, n) == 1 + Cardinality({ k \in 1..(n - 1) : text[k] = "\n" })
ColumnOf(text, n) == n - Max({ 0 } \cup { k \in 1..(n - 1) : text[k] = "\n" })

\* C19: remove_comment deletes every single-line comment (from // up to, not
\* including, the newline) and every block comment (from /* through the first
\* */ after it) and keeps every other character in order, whatever
\* characters precede the closing */ of a block comment.
C19_CommentsRemoved ==
  (pc = "stripped" /\ UnclosedFrom(source, 1) = 0) =>
    /\ stripped.ok
    /\ stripped.text = WithoutComments(source, 1)

\* C20: remove_comment returns Err exactly when a block comment is opened
\* and never closed, and the message gives the 1-based row and column of the
\* / that opens it, whatever precedes that /.
C20_NotClosedReported ==
  pc = "stripped" =>
    /\ stripped.ok <=> UnclosedFrom(source, 1) = 0
    /\ ~stripped.ok =>
         /\ stripped.row = RowOf(source, UnclosedFrom(source, 1))
         /\ stripped.column = ColumnOf(source, UnclosedFrom(source, 1))

\* the characters of the lines, in order, spaces left out
RECURSIVE Lexemes(_)
Lexemes(input) ==
  IF input = <<>> THEN <<>>
  ELSE Without(input[1], " ") \o Lexemes(Tail(input))

\* the texts of the tokens, in order, one after the other
RECURSIVE Values(_)
Values(toks) ==
  IF toks = <<>> THEN "" ELSE toks[1].token_value \o Values(Tail(toks))

\* no line holds a quote, so no space is part of a lexeme
NoQuotes(input) ==
  \A n \in DOMAIN input : ~Contains(input[n], "'") /\ ~Contains(input[n], "\"")

\* C21: lexical_analysis emits one token per lexeme of the comment-free
\* source, in source order and classified by kind; no lexeme, an integer
\* literal in particular, is dropped, and scanning never aborts.
C21_EveryLexemeAToken ==
  pc = "lexed" =>
    /\ ~lexed.panic
    /\ NoQuotes(lines) => Values(lexed.tokens) = Text(Lexemes(lines))
    /\ \A k \in DOMAIN lexed.tokens :
         /\ lexed.tokens[k].token_type = "Keyword" => lexed.tokens[k].token_value \in KEYWORDS
         /\ lexed.tokens[k].token_type = "Identifier" => lexed.tokens[k].token_value \notin KEYWORDS
         /\ lexed.tokens[k].token_type = "Operator" => lexed.tokens[k].token_value \in OPERATOR
         /\ lexed.tokens[k].token_type = "Delimiter" => lexed.tokens[k].token_value \in DELIMITERS

\* C28: the boolean lexical_analysis returns with the tokens is true exactly
\* when one of the tokens is of kind Error, whichever branch of the scanner
\* made that token.
C28_FlagIffErrorToken ==
  (pc = "lexed" /\ ~lexed.panic) =>
    (lexed.error <=> \E k \in DOMAIN lexed.tokens : lexed.tokens[k].token_type = "Error")

\* C22: the map get_first returns is a fixed point of the FIRST rule, for
\* every validated grammar and every order of its productions: for each
\* production A -> Y1 ... Yn and each i with ε in FIRST(Yj) for all j < i,
\* every element of FIRST(Yi) other than ε is in FIRST(A).
C22_FirstFixedPoint ==
  (FirstCalled /\ first.ok) =>
    \A n \in DOMAIN g.p : \A i \in DOMAIN g.p[n].right :
      (\A j \in 1..(i - 1) : Contains(first.first[g.p[n].right[j]], EPS))
        => \A x \in Elems(first.first[g.p[n].right[i]]) \ { EPS } :
             Contains(first.first[g.p[n].left], x)

\* C23: the collection get_lr0_collection returns never holds two states
\* with the same items when they are compared as sets: a state is appended
\* only if no state already there has its items, in whatever order.
C23_StatesDistinctAsSets ==
  table.ok =>
    \A i \in DOMAIN table.lr0_items : \A k \in DOMAIN table.lr0_items :
      Elems(table.lr0_items[i]) = Elems(table.lr0_items[k]) => i = k

\* GOTO(I, X) of the LR(0) automaton, as a set: the closure of the items of
\* I with X after the dot, the dot moved over X
GotoSet(gr, I, X) ==
  ClosureFrom(gr, { [it EXCEPT !.dot = @ + 1] :
                    it \in { i \in I : i.dot < Len(i.right) /\ dot_symbol(i) = X } })

\* a conflict on the cell (k, X) of the table named name was reported
Reported(tb, name, k, X) ==
  \E w \in DOMAIN tb.warnings :
    /\ tb.warnings[w].table = name
    /\ tb.warnings[w].state = k
    /\ tb.warnings[w].sym = X

\* the cell names a state of the collection that is GOTO(I_k, X) as a set
\* (k counts from 0)
LeadsToGoto(tb, cell, kind, k, X) ==
  /\ cell.kind = kind
  /\ cell.n + 1 \in DOMAIN tb.lr0_items
  /\ Elems(tb.lr0_items[cell.n + 1]) = GotoSet(tb.outreach_g, Elems(tb.lr0_items[k + 1]), X)

\* the transition of state k on X is in the table
TransitionEmitted(tb, k, X) ==
  IF Contains(tb.outreach_g.t, X)
  THEN \/ Reported(tb, "ACTION", k, X)
       \/ /\ X \in DOMAIN tb.Action[k + 1]
          /\ LeadsToGoto(tb, tb.Action[k + 1][X], "s", k, X)
  ELSE \/ Reported(tb, "GOTO", k, X)
       \/ /\ X \in DOMAIN tb.Goto[k + 1]
          /\ LeadsToGoto(tb, tb.Goto[k + 1][X], "g", k, X)

\* C24: the transitions of the tables are those of the LR(0) automaton: for
\* every state k and every item A -> α·Xβ of it, ACTION[k, X] = shift j when
\* X is a terminal and GOTO[k, X] = j when X is a non-terminal, j being the
\* index of a state that is GOTO(I_k, X) as a set, unless a conflict on the
\* cell was reported; every such j is the index of a state.
C24_TransitionsAgree ==
  (pc = "table" /\ table.ok) =>
    \A k \in DOMAIN table.lr0_items : \A m \in DOMAIN table.lr0_items[k] :
      table.lr0_items[k][m].dot < Len(table.lr0_items[k][m].right)
        => TransitionEmitted(table, k - 1, dot_symbol(table.lr0_items[k][m]))

\* tables without a reported conflict that hold a shift and a goto, each to a
\* state other than state 0
C24_ShiftAndGotoEmitted ==
  /\ pc = "table"
  /\ table.ok
  /\ table.warnings = <<>>
  /\ \E k \in DOMAIN table.Action : \E X \in DOMAIN table.Action[k] :
       table.Action[k][X].kind = "s" /\ table.Action[k][X].n > 0
  /\ \E k \in DOMAIN table.Goto : \E X \in DOMAIN table.Goto[k] :
       table.Goto[k][X].kind = "g" /\ table.Goto[k][X].n > 0

\* the action reduces by a production of gr that is left -> right
ReducesBy(gr, action, left, right) ==
  /\ action.kind = "r"
  /\ action.n + 1 \in DOMAIN gr.p
  /\ gr.p[action.n + 1] = Product(left, right)

\* the n-th write put, into the cell (k, a), a reduction by left -> right of
\* gr, and the cell still holds it unless a later write put another action
ReduceWritten(tb, gr, n, k, a, left, right) ==
  /\ tb.writes[n].state = k
  /\ tb.writes[n].sym = a
  /\ ReducesBy(gr, tb.writes[n].action, left, right)
  /\ \/ tb.Action[k + 1][a] = tb.writes[n].action
     \/ \E m \in (n + 1)..Len(tb.writes) :
          /\ tb.writes[m].state = k
          /\ tb.writes[m].sym = a
          /\ tb.writes[m].action # tb.writes[n].action

\* C25: for every state k, every item A -> α· of it with A other than S' and
\* every a in FOLLOW(A) that is a terminal or #, ACTION[k, a] is reduce p
\* (unless a later conflicting write replaced it), p being the index, in the
\* production list of the grammar before augmentation, of the production
\* A -> α: the production the driver finds under p in the grammar it is given.
C25_ReduceByItsProduction ==
  (pc = "table" /\ table.ok) =>
    \A k \in DOMAIN table.lr0_items : \A m \in DOMAIN table.lr0_items[k] :
      (/\ table.lr0_items[k][m].dot = Len(table.lr0_items[k][m].right)
       /\ table.lr0_items[k][m].left # table.outreach_g.s)
        => \A a \in Elems(follow.follow[table.lr0_items[k][m].left])
                      \cap (Elems(g.t) \cup { END }) :
             \E n \in DOMAIN table.writes :
               ReduceWritten(table, g, n, k - 1, a, table.lr0_items[k][m].left,
                             table.lr0_items[k][m].right)

\* tables without a reported conflict in which some cell is a reduction
C25_ReduceEmitted ==
  /\ pc = "table"
  /\ table.ok
  /\ table.warnings = <<>>
  /\ \E k \in DOMAIN table.Action : \E a \in DOMAIN table.Action[k] :
       table.Action[k][a].kind = "r" /\ a # END

\* |β| of a production A -> β: an ε-production, whose right is [ε], has
\* |β| = 0
Size(p) == IF p.right = << EPS >> THEN 0 ELSE Len(p.right)

\* C26: a reduction by p = A -> β pops exactly |β| entries from both stacks
\* before A and GOTO[s', A] are pushed; a reduction by an ε-production pops
\* none.
C26_ReducePopsRightSide ==
  [][ (pc = "loop" /\ Step.kind = "reduce") =>
        /\ Len(state_stack') = Len(state_stack) - Size(g.p[Step.production + 1]) + 1
        /\ Len(symbol_stack') = Len(symbol_stack) - Size(g.p[Step.production + 1]) + 1
    ]_vars

\* the driver is about to reduce by an ε-production
C26_EpsilonReduction ==
  /\ pc = "loop"
  /\ Step.kind = "reduce"
  /\ g.p[Step.production + 1].right = << EPS >>

\* the list is what is left of whole after some of its first elements were
\* taken away
IsSuffix(list, whole) ==
  \E n \in 0..Len(whole) : list = SubSeq(whole, n + 1, Len(whole))

\* C27: at the start of every iteration of the loop of slr1_analysis, for
\* every pair of tables and every token sequence, state_stack and
\* symbol_stack have the same length, at least 1, their bottom entries are
\* state 0 and the symbol #, and the buffer is a suffix of the initial buffer.
C27_StackDiscipline ==
  pc = "loop" =>
    /\ Len(state_stack) = Len(symbol_stack)
    /\ Len(state_stack) >= 1
    /\ state_stack[1] = 0
    /\ symbol_stack[1] = "#"
    /\ IsSuffix(buffer, Terminals(tokens) \o << "#" >>)

\* an iteration starts after a shift and a reduction have been made
C27_AfterShiftAndReduce ==
  /\ pc = "loop"
  /\ last_reduce >= 0
  /\ Len(state_stack) >= 2
  /\ Len(buffer) <= Len(tokens)

=============================================================================
